---- MODULE Spec2Model ----
(***************************************************************************)
(* A state-machine model of the Nixie circuit layer of                     *)
(* nodejs-poolController: NixieCircuitCollection and NixieCircuit          *)
(* (src/controller/nixie/circuits/Circuit.ts).                             *)
(*                                                                         *)
(* JavaScript runs one task at a time: an async method runs atomically up  *)
(* to its next await of a device call, and atomically again from the       *)
(* response to the following await.  Each such segment is one action.      *)
(* A call suspended on an await is an entry of `calls`.                    *)
(***************************************************************************)
EXTENDS Integers, Sequences, FiniteSets, TLC

\* ---------------------------------------------------------------- bounds
\* Number of circuits in the configuration store (ids 1..NumCircuits).
NumCircuits == 2
\* Number of method calls that may be suspended on an await at once.
MaxInFlight == 2
\* Number of distinct Timeout identities (handles are recycled).
NumHandles == 2

Ids == 1..NumCircuits
Handles == 1..NumHandles

\* ------------------------------------------------------------- constants
\* The status code the unit commits on (Circuit.ts line 107, also line 104).
OkCode == 200
\* A status code other than OkCode that the device may answer with.
OtherCodes == {503}
\* master === 1 marks a circuit as controlled by this layer (line 45, 28).
MasterFlag == 1
\* The value of the Timeout field when no timer is held (line 14, 79).
NoTimer == 0

Undefined == "<undefined>"
Null == "<null>"

VARIABLES
    circuits,    \* sys.circuits: id -> [master, connectionId, deviceBinding]
    coll,        \* the NixieCircuitCollection: sequence of units, each named by its circuit id
    isOn,        \* state.circuits[id].isOn
    commStatus,  \* state.circuits[id].commStatus
    calls,       \* calls suspended on an await, in the order they were issued
    pollTimer,   \* NixieCircuitCollection._pollTimer (NoTimer = null)
    timers,      \* Timeouts scheduled and neither fired nor cleared
    last         \* the call completed (or begun) by the latest step, with its results

vars == <<circuits, coll, isOn, commStatus, calls, pollTimer, timers, last>>

\* ------------------------------------------------------- values, helpers
\* What a promise settles with.
Undef == [kind |-> "undefined", code |-> 0]
Response(c) == [kind |-> "response", code |-> c]
Rejected == [kind |-> "rejected", code |-> 0]
UnitRef == [kind |-> "unit", code |-> 0]
NoResult == [kind |-> "none", code |-> 0]
\* What a device call ends with: a response carrying a status code, or an error thrown.
Thrown == [kind |-> "thrown", code |-> 0]
PutOutcomes == {Response(c) : c \in {OkCode} \cup OtherCodes} \cup {Thrown}

NoMsg == [id |-> 0, val |-> FALSE]

\* The course of one closeAsync call so far, kept for as long as nothing but the
\* call itself has changed the collection (clean): the collection it was called on
\* (start), the units whose close it has awaited, in order (order), and those
\* whose close was rejected (failed).
NoHist == [clean |-> FALSE, start |-> <<>>, order |-> <<>>, failed |-> {}]

\* The suspended calls once another call has changed the collection.
Disturbed(cs) == [j \in DOMAIN cs |-> [cs[j] EXCEPT !.hist = NoHist]]

\* A call as the caller sees it once it has settled: the method (op) and its
\* arguments (id, val, and arg: the config list of initAsync), how the device call it
\* made ended (dev), what the unit's promise settled with (unit), what the
\* collection's promise settled with (ret), what a not-found error names (msg), and
\* where the call stood among the suspended calls, which are kept in the order they
\* were issued (pos, 0 for a call that was not suspended).  For closeAsync, op is
\* "close" while the loop goes on and "closeAll" when it has ended, and the record
\* names the units whose close settled in the step, in order (settled), those among
\* them whose close was rejected (rejected), and the course of the call (hist).
Result(op, id, val, dev, unit, ret) ==
    [op |-> op, id |-> id, val |-> val, dev |-> dev, unit |-> unit, ret |-> ret,
     msg |-> NoMsg, arg |-> <<>>, pos |-> 0, settled |-> <<>>, rejected |-> {},
     hist |-> NoHist]

Idle == Result("none", 0, FALSE, NoResult, NoResult, NoResult)

\* The caller has taken the result of the latest call: the next step may begin.
Taken == last = Idle

Min(a, b) == IF a < b THEN a ELSE b

RemoveAt(s, k) == [j \in 1..(Len(s) - 1) |-> IF j < k THEN s[j] ELSE s[j + 1]]

\* Array.prototype.splice(i, 1) with the 1-based index k: nothing is removed past the end.
Splice(s, k) == IF k >= 1 /\ k <= Len(s) THEN RemoveAt(s, k) ELSE s

\* Array.prototype.find(elem => elem.id === id) !== undefined
Found(id) == \E k \in 1..Len(coll) : coll[k] = id

\* utils.isNullOrEmpty (controller/Constants.ts)
isNullOrEmpty(v) == v \in {Undefined, Null, ""}

\* IsVirtual with && written for ||.
IsVirtualBothAbsent(id) ==
    /\ isNullOrEmpty(circuits[id].connectionId)
    /\ isNullOrEmpty(circuits[id].deviceBinding)

\* The unit's test for "no device": Circuit.ts line 102.
IsVirtual(id) ==
    \/ isNullOrEmpty(circuits[id].connectionId)
    \/ isNullOrEmpty(circuits[id].deviceBinding)

\* ------------------------------------------------------------------ Init
\* The (connectionId, deviceBinding) pairs a configured circuit may carry: a device,
\* no connection and an empty binding, and a null connection.
Bindings ==
    { <<"c1", "b1">>, <<Undefined, "">>, <<Null, "b1">> }

CircuitConfigs ==
    { [master |-> m, connectionId |-> b[1], deviceBinding |-> b[2]] :
        m \in {0, MasterFlag}, b \in Bindings }

Init ==
    /\ circuits \in [Ids -> CircuitConfigs]
    /\ coll = <<>>
    /\ isOn = [id \in Ids |-> FALSE]
    /\ commStatus = [id \in Ids |-> 0]
    /\ calls = <<>>
    /\ pollTimer = NoTimer
    /\ timers = {}
    /\ last = Idle

\* ----------------------------------------- NixieCircuit.setCircuitStateAsync
\* Commits without the test of the status code.
CommitsAnyResponse(out) == out.kind = "response"

\* Line 107: the state is committed on this response only.
Commits(out) == out.kind = "response" /\ out.code = OkCode

\* Lines 106-109: what the unit's promise settles with once the PUT has ended.
\* A thrown error is caught and logged, and the method falls off its end.
UnitResult(out) == IF out.kind = "thrown" THEN Undef ELSE out

\* Lines 19-22: what the collection's promise settles with once the unit's has.
\* The awaited value is dropped; a rejection of the unit is passed on.
CollResult(unit) == IF unit.kind = "rejected" THEN Rejected ELSE Undef

\* isOn after the PUT of `val` for circuit `id` has ended with `out`.
AfterPut(id, val, out) == IF Commits(out) THEN [isOn EXCEPT ![id] = val] ELSE isOn

\* ------------------------------- NixieCircuitCollection.setCircuitStateAsync
\* SetStateNotFound that builds the missing unit and writes its state.
SetStateNotFoundCreates(id, val) ==
    /\ Taken
    /\ ~Found(id)
    /\ coll' = Append(coll, id)
    /\ isOn' = [isOn EXCEPT ![id] = val]
    /\ last' = Result("setState", id, val, NoResult, Response(OkCode), Undef)
    /\ UNCHANGED <<circuits, commStatus, calls, pollTimer, timers>>

\* Lines 17-18: no unit has the id; the promise is rejected with an Error whose
\* message names cstate.id and val.
SetStateNotFound(id, val) ==
    /\ Taken
    /\ ~Found(id)
    /\ last' = [Result("setState", id, val, NoResult, NoResult, Rejected)
                    EXCEPT !.msg = [id |-> id, val |-> val]]
    /\ UNCHANGED <<circuits, coll, isOn, commStatus, calls, pollTimer, timers>>

SetStateVirtual(id, val) ==
    /\ Taken
    /\ Found(id)
    /\ IsVirtual(id)
    /\ isOn' = [isOn EXCEPT ![id] = val]
    /\ last' = Result("setState", id, val, NoResult,
                      Response(OkCode), CollResult(Response(OkCode)))
    /\ UNCHANGED <<circuits, coll, commStatus, calls, pollTimer, timers>>

\* SetStatePut that writes the state before the device has answered.
SetStatePutSpeculative(id, val) ==
    /\ Taken
    /\ Found(id)
    /\ ~IsVirtual(id)
    /\ Len(calls) < MaxInFlight
    /\ isOn' = [isOn EXCEPT ![id] = val]
    /\ calls' = Append(calls, [op |-> "set", id |-> id, val |-> val, i |-> 0,
                                hist |-> NoHist])
    /\ last' = Idle
    /\ UNCHANGED <<circuits, coll, commStatus, pollTimer, timers>>

\* Line 106: the unit is bound; the call is suspended on the PUT.
SetStatePut(id, val) ==
    /\ Taken
    /\ Found(id)
    /\ ~IsVirtual(id)
    /\ Len(calls) < MaxInFlight
    /\ calls' = Append(calls, [op |-> "set", id |-> id, val |-> val, i |-> 0,
                                hist |-> NoHist])
    /\ last' = Idle
    /\ UNCHANGED <<circuits, coll, isOn, commStatus, pollTimer, timers>>

SetCircuitState(id, val) ==
    \/ SetStateNotFound(id, val)
    \/ SetStateVirtual(id, val)
    \/ SetStatePut(id, val)

\* PutResponse in which a response commits only when no call issued later is
\* still suspended.
PutResponseIssueOrder(k, out) ==
    /\ Taken
    /\ k \in 1..Len(calls)
    /\ calls[k].op = "set"
    /\ isOn' = IF k = Len(calls) THEN AfterPut(calls[k].id, calls[k].val, out) ELSE isOn
    /\ calls' = RemoveAt(calls, k)
    /\ last' = [Result("setState", calls[k].id, calls[k].val, out,
                       UnitResult(out), CollResult(UnitResult(out))) EXCEPT !.pos = k]
    /\ UNCHANGED <<circuits, coll, commStatus, pollTimer, timers>>

\* The PUT of the suspended call k ends with `out`: lines 107-109, then 19-22.
PutResponse(k, out) ==
    /\ Taken
    /\ k \in 1..Len(calls)
    /\ calls[k].op = "set"
    /\ isOn' = AfterPut(calls[k].id, calls[k].val, out)
    /\ calls' = RemoveAt(calls, k)
    /\ last' = [Result("setState", calls[k].id, calls[k].val, out,
                       UnitResult(out), CollResult(UnitResult(out))) EXCEPT !.pos = k]
    /\ UNCHANGED <<circuits, coll, commStatus, pollTimer, timers>>

\* ------------------------------------- NixieCircuitCollection.setCircuitAsync
\* Lines 26-36: find the unit; when there is none, mark the config master, build the
\* unit and push it.  NixieCircuit.setCircuitAsync (lines 93-98) changes nothing, so
\* the segment after its await is empty.
SetCircuitAsync(id) ==
    /\ Taken
    /\ IF Found(id)
       THEN UNCHANGED <<circuits, coll, calls>>
       ELSE /\ circuits' = [circuits EXCEPT ![id].master = MasterFlag]
            /\ coll' = Append(coll, id)
            /\ calls' = Disturbed(calls)
    /\ last' = Result("setCircuit", id, FALSE, NoResult, NoResult, Undef)
    /\ UNCHANGED <<isOn, commStatus, pollTimer, timers>>

\* ------------------------------------ NixieCircuitCollection.initCircuitAsync
\* InitCircuitAsync without the test of line 69.
InitCircuitAlwaysPushes(id) ==
    /\ Taken
    /\ coll' = Append(coll, id)
    /\ calls' = Disturbed(calls)
    /\ last' = Result("initCircuit", id, FALSE, NoResult, NoResult, UnitRef)
    /\ UNCHANGED <<circuits, isOn, commStatus, pollTimer, timers>>

\* Lines 68-73: find the unit; when there is none, build it and push it.
InitCircuitAsync(id) ==
    /\ Taken
    /\ coll' = IF Found(id) THEN coll ELSE Append(coll, id)
    /\ calls' = IF Found(id) THEN calls ELSE Disturbed(calls)
    /\ last' = Result("initCircuit", id, FALSE, NoResult, NoResult, UnitRef)
    /\ UNCHANGED <<circuits, isOn, commStatus, pollTimer, timers>>

\* ------------------------------------------- NixieCircuitCollection.initAsync
\* The CircuitCollection handed to initAsync: config entries in some order, ids unique.
ConfigLists ==
    { s \in UNION { [1..n -> Ids] : n \in 0..NumCircuits } :
        \A a, b \in DOMAIN s : a # b => s[a] # s[b] }

\* Line 45: the entries that get a unit.
IsMaster(id) == circuits[id].master = MasterFlag

\* InitAsync without line 42 (this.length = 0).
InitAsyncKeepsUnits(cfgs) ==
    /\ Taken
    /\ coll' = coll \o SelectSeq(cfgs, IsMaster)
    /\ calls' = Disturbed(calls)
    /\ last' = [Result("init", 0, FALSE, NoResult, NoResult, Undef) EXCEPT !.arg = cfgs]
    /\ UNCHANGED <<circuits, isOn, commStatus, pollTimer, timers>>

\* Lines 42-50: empty the collection, then push a unit for every master entry.
InitAsync(cfgs) ==
    /\ Taken
    /\ coll' = SelectSeq(cfgs, IsMaster)
    /\ calls' = Disturbed(calls)
    /\ last' = [Result("init", 0, FALSE, NoResult, NoResult, Undef) EXCEPT !.arg = cfgs]
    /\ UNCHANGED <<circuits, isOn, commStatus, pollTimer, timers>>

\* ---------------------------------------------------- NixieCircuit.closeAsync
\* Lines 135-137: what the unit's closeAsync settles with.  `look`: the lookup
\* state.circuits.getItemById of line 134 returned the unit's state; when it throws
\* instead, line 137 rejects.  The result of setCircuitStateAsync is dropped, and
\* that method rejects on nothing (line 109).
UnitCloseResult(look) == IF look THEN Undef ELSE Rejected

\* ------------------------------------------ NixieCircuitCollection.closeAsync
\* Line 56 (i--) and line 58: the next index whose element exists.  this[i] of an
\* index past the end is undefined, the call on it throws a TypeError that line 60
\* catches, and the loop goes on to i - 1.
NextIndex(i, c) == Min(i - 1, Len(c))

\* AfterRejected with the catch around the loop instead of inside it.
AfterRejectedAborts(i, c) == 0

\* Line 60: the catch is inside the loop, which goes on after a rejected close.
AfterRejected(i, c) == NextIndex(i, c)

\* The turns of the loop of lines 56-61 that no device call interrupts, from index
\* w.i down, on the collection w.c and the live state w.on; `fail` holds the ids
\* whose state lookup throws.  At a bound unit whose state is found the loop is
\* suspended on the PUT (line 106).  A unit whose lookup throws has its close
\* rejected: it is logged (line 60) and stays.  A virtual unit is set off at once
\* (line 103), its close resolves, and it is spliced out (line 59).  w.i = 0 when
\* the loop has ended; w.order and w.rejected are the units whose close settled.
RECURSIVE Walk(_, _)
Walk(w, fail) ==
    IF w.i = 0
    THEN w
    ELSE LET u == w.c[w.i]
             look == u \notin fail
         IN  IF look /\ ~IsVirtual(u)
             THEN w
             ELSE IF UnitCloseResult(look) = Rejected
                  THEN Walk([w EXCEPT !.i = AfterRejected(w.i, w.c),
                                      !.order = Append(@, u),
                                      !.rejected = @ \cup {u}], fail)
                  ELSE Walk([w EXCEPT !.c = Splice(w.c, w.i),
                                      !.on = [@ EXCEPT ![u] = FALSE],
                                      !.i = NextIndex(w.i, Splice(w.c, w.i)),
                                      !.order = Append(@, u)], fail)

\* The course h of a call after the turns w.
HistOf(h, w) ==
    IF h.clean
    THEN [h EXCEPT !.order = @ \o w.order, !.failed = @ \cup w.rejected]
    ELSE NoHist

\* The suspended calls once call k has left the collection as c.
Others(k, c) ==
    IF c = coll
    THEN calls
    ELSE [j \in DOMAIN calls |-> IF j = k THEN calls[j] ELSE [calls[j] EXCEPT !.hist = NoHist]]

\* The loop has taken the turns w: the call is suspended on the unit at w.i, or has
\* ended and resolves (lines 62-64).  `put` is how the device call that the call
\* was suspended on has ended, id the unit it was for.
CloseStep(k, h, w, id, put) ==
    LET cs == Others(k, w.c)
        res(op) == [Result(op, id, FALSE, put, IF put = NoResult THEN NoResult ELSE Undef, Undef)
                       EXCEPT !.pos = IF put = NoResult THEN 0 ELSE k,
                              !.settled = w.order, !.rejected = w.rejected,
                              !.hist = HistOf(h, w)]
    IN  /\ coll' = w.c
        /\ isOn' = w.on
        /\ IF w.i = 0
           THEN /\ calls' = IF k \in DOMAIN cs THEN RemoveAt(cs, k) ELSE cs
                /\ last' = res("closeAll")
           ELSE /\ calls' = [j \in DOMAIN cs \cup {k} |->
                                IF j = k
                                THEN [op |-> "close", id |-> w.c[w.i], val |-> FALSE,
                                      i |-> w.i, hist |-> HistOf(h, w)]
                                ELSE cs[j]]
                /\ last' = IF put = NoResult /\ w.order = <<>> THEN Idle ELSE res("close")

\* closeAsync is called: line 56, and the loop up to its first await of a device
\* call.  With no unit the loop body never runs.
CloseCall(fail) ==
    LET w == Walk([c |-> coll, on |-> isOn, i |-> Len(coll), order |-> <<>>, rejected |-> {}],
                  fail)
    IN  /\ Taken
        /\ fail \subseteq {coll[j] : j \in 1..Len(coll)}
        /\ w.i # 0 => Len(calls) < MaxInFlight
        /\ CloseStep(Len(calls) + 1, [NoHist EXCEPT !.clean = TRUE, !.start = coll],
                     w, 0, NoResult)
        /\ UNCHANGED <<circuits, commStatus, pollTimer, timers>>

\* The PUT that the suspended call k awaits ends with `out`: lines 107-109 and 135
\* for the unit, whose close resolves; then line 59 (splice) and the loop up to its
\* next await of a device call (`fail`: the ids whose state lookup throws).
CloseResume(k, out, fail) ==
    /\ Taken
    /\ k \in 1..Len(calls)
    /\ calls[k].op = "close"
    /\ LET id == calls[k].id
           c1 == Splice(coll, calls[k].i)
           w == Walk([c |-> c1, on |-> AfterPut(id, FALSE, out),
                      i |-> NextIndex(calls[k].i, c1),
                      order |-> <<id>>, rejected |-> {}], fail)
       IN  /\ fail \subseteq {c1[j] : j \in 1..NextIndex(calls[k].i, c1)}
           /\ CloseStep(k, calls[k].hist, w, id, out)
    /\ UNCHANGED <<circuits, commStatus, pollTimer, timers>>

\* --------------------------------------------- NixieCircuit.validateSetupAsync
\* How the device GET ends: with the device's status (hasFault true: "fault",
\* hasFault false: "clean"), with a response that carries no hasFault, as a failed
\* transport reported by a status code does ("nofield"), or with an error thrown.
GetOutcomes == {"fault", "clean", "nofield", "thrown"}

\* The GET as a device call of the result record.
Get(out) == [kind |-> out, code |-> 0]

\* Lines 112-115: a thrown error is reported as { hasFault: true }.
CheckHardwareStatus(out) == IF out = "thrown" THEN "fault" ELSE out

\* Lines 119-120: the unit's test for "has a device" in validateSetupAsync.
HasDevice(id) ==
    /\ circuits[id].connectionId # Undefined /\ circuits[id].connectionId # ""
    /\ circuits[id].deviceBinding # Undefined /\ circuits[id].deviceBinding # ""

\* Line 124: stat.hasFault ? 1 : 0.
CommStatusOf(stat) == IF stat = "fault" THEN 1 ELSE 0

\* ValidateSetup that also switches a faulted unit off.
ValidateSetupFaultTurnsOff(id, out) ==
    /\ Taken
    /\ Found(id)
    /\ ~HasDevice(id) => out = "clean"
    /\ commStatus' = [commStatus EXCEPT ![id] =
                        IF HasDevice(id) THEN CommStatusOf(CheckHardwareStatus(out)) ELSE 0]
    /\ isOn' = IF commStatus'[id] = 1 THEN [isOn EXCEPT ![id] = FALSE] ELSE isOn
    /\ last' = Result("validateSetup", id, FALSE,
                      IF HasDevice(id) THEN Get(out) ELSE NoResult, NoResult, Undef)
    /\ UNCHANGED <<circuits, coll, calls, pollTimer, timers>>

\* Lines 119-128.  The await of line 122 separates nothing that reads the state:
\* the method writes commStatus once, after the GET has ended.
ValidateSetup(id, out) ==
    /\ Taken
    /\ Found(id)
    /\ ~HasDevice(id) => out = "clean"
    /\ commStatus' = [commStatus EXCEPT ![id] =
                        IF HasDevice(id) THEN CommStatusOf(CheckHardwareStatus(out)) ELSE 0]
    /\ last' = Result("validateSetup", id, FALSE,
                      IF HasDevice(id) THEN Get(out) ELSE NoResult, NoResult, Undef)
    /\ UNCHANGED <<circuits, coll, isOn, calls, pollTimer, timers>>

\* ------------------------------------ NixieCircuitCollection.pollCircuitsAsync
\* The identity of the Timeout that setTimeout returns: one that is not pending
\* (identities of Timeouts that fired or were cleared are used again).
NewHandle(pending) ==
    CHOOSE h \in Handles \ pending : \A g \in Handles \ pending : h <= g

\* ClearTimeout that cancels nothing.
ClearTimeoutSkipped(pending, h) == pending

\* Line 78: clearTimeout(this._pollTimer).
ClearTimeout(pending, h) == pending \ {h}

\* Lines 77-83 on the pending Timeouts `pending`: clear the held timer, drop it,
\* run the pass (`throws`: the try block raised an error, which line 82 turns into
\* a rejection), and in the finally block schedule the next tick.
PollCircuits(pending, throws) ==
    LET cleared == ClearTimeout(pending, pollTimer)
    IN  /\ Taken
        /\ Handles \ cleared # {}
        /\ pollTimer' = NewHandle(cleared)
        /\ timers' = cleared \cup {NewHandle(cleared)}
        /\ last' = Result("pollTick", 0, FALSE, NoResult, NoResult,
                          IF throws THEN Rejected ELSE Undef)
        /\ UNCHANGED <<circuits, coll, isOn, commStatus, calls>>

\* pollCircuitsAsync called by the control panel.
PollCall(throws) == PollCircuits(timers, throws)

\* A scheduled Timeout fires and its callback calls pollCircuitsAsync (line 83).
PollTimerFire(h, throws) ==
    /\ h \in timers
    /\ PollCircuits(timers \ {h}, throws)

\* The caller of the latest call takes its result.
Return ==
    /\ ~Taken
    /\ last' = Idle
    /\ UNCHANGED <<circuits, coll, isOn, commStatus, calls, pollTimer, timers>>

Next ==
    \/ \E id \in Ids, val \in BOOLEAN : SetCircuitState(id, val)
    \/ \E k \in 1..MaxInFlight, out \in PutOutcomes : PutResponse(k, out)
    \/ \E id \in Ids : SetCircuitAsync(id)
    \/ \E id \in Ids : InitCircuitAsync(id)
    \/ \E cfgs \in ConfigLists : InitAsync(cfgs)
    \/ \E fail \in SUBSET Ids : CloseCall(fail)
    \/ \E k \in 1..MaxInFlight, out \in PutOutcomes, fail \in SUBSET Ids :
          CloseResume(k, out, fail)
    \/ \E id \in Ids, out \in GetOutcomes : ValidateSetup(id, out)
    \/ \E throws \in BOOLEAN : PollCall(throws)
    \/ \E h \in Handles, throws \in BOOLEAN : PollTimerFire(h, throws)
    \/ Return

Spec == Init /\ [][Next]_vars

\* Scheduling: Node's event loop runs the callback of a pending Timeout, a device
\* call ends (with a response or an error), and a settled promise reaches its
\* caller.  Nothing obliges the control panel to make a call.
PollTimerFires == \E h \in Handles, throws \in BOOLEAN : PollTimerFire(h, throws)

DeviceCallEnds ==
    \E k \in 1..MaxInFlight, out \in PutOutcomes, fail \in SUBSET Ids :
        PutResponse(k, out) \/ CloseResume(k, out, fail)

FairSpec ==
    /\ Spec
    /\ WF_vars(PollTimerFires)
    /\ WF_vars(DeviceCallEnds)
    /\ WF_vars(Return)

\* ---------------------------------------------------------------- claims
\* The vocabulary of the claims: a binding field is absent when it is undefined,
\* null or empty; a unit is bound when both fields are present, virtual otherwise.
Absent(v) == v = Undefined \/ v = Null \/ v = ""
Bound(id) == ~Absent(circuits[id].connectionId) /\ ~Absent(circuits[id].deviceBinding)
Virtual(id) == ~Bound(id)

\* C1: for a bound unit, the state write whose device PUT has just ended leaves
\* isOn at the desired value when the response carried code 200, and leaves isOn
\* as it was when the response carried another code or the call raised an error.
C1_BoundCommitsIffOk ==
    [][\A id \in Ids :
          (/\ Bound(id)
           /\ last'.op \in {"setState", "close", "closeAll"}
           /\ last'.id = id
           /\ last'.dev # NoResult)
          => IF last'.dev = Response(OkCode)
             THEN isOn'[id] = last'.val
             ELSE isOn'[id] = isOn[id]]_vars

\* A PUT answered 503 has left a bound unit on, against the desired value off.
C1_Witness ==
    /\ last.op = "setState"
    /\ last.id \in Ids
    /\ Bound(last.id)
    /\ last.dev = Response(503)
    /\ last.val = FALSE
    /\ isOn[last.id] = TRUE

\* C2: setState(x) on a virtual unit of the collection returns code 200 without a
\* device call and leaves isOn = x; no suspended state write is ever that of a
\* virtual unit.
C2_VirtualSetStateSucceeds ==
    /\ \A id \in Ids :
          (/\ Virtual(id)
           /\ last.op = "setState"
           /\ last.id = id
           /\ last.ret.kind # "rejected")
          => (/\ last.unit = Response(OkCode)
              /\ last.dev = NoResult
              /\ isOn[id] = last.val)
    /\ \A k \in 1..Len(calls) : calls[k].op = "set" => Bound(calls[k].id)

\* A virtual unit that was on has been set off.
C2_Witness ==
    /\ last.op = "setState"
    /\ last.id \in Ids
    /\ Virtual(last.id)
    /\ last.unit = Response(OkCode)
    /\ last.val = FALSE
    /\ isOn[last.id] = FALSE
    /\ \E other \in Ids : other # last.id /\ Virtual(other) /\ isOn[other] = TRUE

\* C3: the collection's setState hands the unit's result to its caller: when the
\* device answered the PUT with a status code, the value the collection-level call
\* settles with carries that code (503 for 503, 200 for 200).
C3_CollectionReturnsUnitResult ==
    \A id \in Ids :
        (/\ last.op = "setState"
         /\ last.id = id
         /\ last.dev.kind = "response")
        => (last.ret.kind = "response" /\ last.ret.code = last.dev.code)

\* A setState call of the id begins in this step: it settles at once (not found,
\* virtual) or is suspended on its PUT.
SetStateBegins(id) ==
    \/ /\ last'.op = "setState"
       /\ last'.id = id
       /\ Len(calls') = Len(calls)
    \/ /\ Len(calls') = Len(calls) + 1
       /\ calls'[Len(calls')].op = "set"
       /\ calls'[Len(calls')].id = id

\* C4: a setState(id, desired) for an id with no unit in the collection is rejected
\* with an error naming the id and the desired value; it suspends no call, builds
\* no unit and leaves the collection, the configuration and the live state as
\* they were.
C4_NotFoundRejects ==
    [][\A id \in Ids :
          (~Found(id) /\ SetStateBegins(id))
          => (/\ last'.op = "setState"
              /\ last'.ret.kind = "rejected"
              /\ last'.msg = [id |-> id, val |-> last'.val]
              /\ UNCHANGED <<coll, circuits, isOn, commStatus, calls>>)]_vars

\* setState(id, true) was rejected for an id missing from a collection that holds
\* another unit.
C4_Witness ==
    /\ last.op = "setState"
    /\ last.ret.kind = "rejected"
    /\ last.msg = [id |-> last.id, val |-> TRUE]
    /\ Len(coll) = 1
    /\ coll[1] # last.id

\* C5: a state write whose device call raised an error is reported as a failure:
\* the unit's promise is rejected or carries the error, and the collection-level
\* call is rejected.
C5_DeviceErrorIsReported ==
    (last.op = "setState" /\ last.dev = Thrown)
    => (/\ last.unit.kind \in {"rejected", "thrown"}
        /\ last.ret.kind = "rejected")

\* C6: the collection holds at most one unit per id.
C6_OneUnitPerId ==
    \A a, b \in 1..Len(coll) : a # b => coll[a] # coll[b]

\* setCircuitAsync was called for the id of the first of two units: the unit was
\* there already, and the collection did not grow.
C6_Witness ==
    /\ last.op \in {"setCircuit", "initCircuit"}
    /\ Len(coll) = 2
    /\ coll[1] = last.id

\* The entries of a config list that are marked master, in the list's order.
RECURSIVE MasterEntries(_)
MasterEntries(cfgs) ==
    IF cfgs = <<>>
    THEN <<>>
    ELSE (IF circuits[Head(cfgs)].master = 1 THEN <<Head(cfgs)>> ELSE <<>>)
         \o MasterEntries(Tail(cfgs))

\* C7: after initAsync(cfgs) the collection holds exactly one unit for each entry
\* of cfgs with master = 1, in the order of cfgs, and nothing else, whatever it
\* held before.
C7_InitHoldsMasterEntries ==
    last.op = "init" => coll = MasterEntries(last.arg)

\* initAsync was given two entries; the first, not a master, had a unit before the
\* call (a state write of it is still suspended) and has none now.
C7_Witness ==
    /\ last.op = "init"
    /\ Len(last.arg) = 2
    /\ coll = <<last.arg[2]>>
    /\ \E k \in 1..Len(calls) : calls[k].op = "set" /\ calls[k].id = last.arg[1]

\* C8: every unit of the collection has a config with master = 1.
C8_EveryUnitIsMaster ==
    \A k \in 1..Len(coll) : circuits[coll[k]].master = 1

\* C9: at most one poll timer is pending, and when pollCircuitsAsync has returned
\* (resolved or rejected) exactly one is, the one the collection holds.
C9_OnePollTimer ==
    /\ Cardinality(timers) <= 1
    /\ last.op = "pollTick" => (Cardinality(timers) = 1 /\ pollTimer \in timers)

\* A poll tick whose pass raised an error has returned, and a timer is pending.
C9_Witness ==
    /\ last.op = "pollTick"
    /\ last.ret.kind = "rejected"
    /\ timers = {pollTimer}

\* A status check of the unit has just completed: validateSetupAsync is the only
\* writer of commStatus (lines 124-128), so commStatus follows the device only
\* through such a check.
StatusChecked(id) == last.op = "validateSetup" /\ last.id = id

\* C10: once polling runs, the poll ticks refresh the comm-fault status of every
\* unit: a bound unit that stays in the collection eventually has its device
\* status checked and its commStatus written, with no other call being made.
C10_PollRefreshesCommStatus ==
    \A id \in Ids :
        (pollTimer \in timers /\ Found(id) /\ Bound(id))
        ~> (StatusChecked(id) \/ ~Found(id))

Reverse(s) == [j \in 1..Len(s) |-> s[Len(s) + 1 - j]]

\* C11: a closeAsync call during which no other call changed the collection has,
\* when it ends, awaited the close of every unit it started with exactly once, from
\* the tail to the head, resolves, and leaves in the collection exactly the units
\* whose close was rejected, in their order (none when no close was rejected).
C11_CloseAllIsolatesFailures ==
    (last.op = "closeAll" /\ last.hist.clean)
    => LET Failed(u) == u \in last.hist.failed
       IN  /\ last.ret = Undef
           /\ last.hist.order = Reverse(last.hist.start)
           /\ coll = SelectSeq(last.hist.start, Failed)

\* closeAsync has ended on a collection of two units: the close of the tail unit
\* was rejected and the unit stays; the head unit, whose PUT raised an error, was
\* closed after it and is gone.
C11_Witness ==
    /\ last.op = "closeAll"
    /\ last.hist.clean
    /\ Len(last.hist.start) = 2
    /\ last.hist.failed = {last.hist.start[2]}
    /\ coll = <<last.hist.start[2]>>
    /\ last.dev = Thrown

\* C12: once closeAsync has started to tear units down (it is suspended on a unit's
\* close, or a step of it has settled the close of a unit), no poll timer is pending.
C12_CloseStopsPollTimer ==
    (\/ \E k \in 1..Len(calls) : calls[k].op = "close"
     \/ (last.op \in {"close", "closeAll"} /\ last.settled # <<>>))
    => timers = {}

\* C13: the close of a unit never rejects, whatever the device does and whether
\* or not the unit's state is found, and a virtual unit whose close has settled
\* is off.
C13_UnitCloseNeverRejects ==
    last.op \in {"close", "closeAll"}
    => (/\ last.rejected = {}
        /\ \A j \in 1..Len(last.settled) :
              Virtual(last.settled[j]) => isOn[last.settled[j]] = FALSE)

\* C14: validateSetupAsync on a bound unit leaves commStatus = 0 (OK) when the
\* device GET ended with a clean, fault-free status, and commStatus = 1 (FAULT) on
\* every other outcome: hasFault true, an error thrown, a failed transport.
C14_ValidateSetupFailSafe ==
    \A id \in Ids :
        (Bound(id) /\ last.op = "validateSetup" /\ last.id = id)
        => (commStatus[id] = (IF last.dev = Get("clean") THEN 0 ELSE 1))

\* C15: validateSetupAsync on a virtual unit (connectionId or deviceBinding
\* undefined, null or empty) makes no device call and leaves commStatus = 0.
C15_VirtualValidatesOk ==
    \A id \in Ids :
        (Virtual(id) /\ last.op = "validateSetup" /\ last.id = id)
        => (last.dev = NoResult /\ commStatus[id] = 0)

\* C16: every virtual unit of the collection has commStatus = 0.
C16_VirtualUnitsAreOk ==
    \A k \in 1..Len(coll) : Virtual(coll[k]) => commStatus[coll[k]] = 0

\* The units whose close resolved in the latest step of a closeAsync call.
ClosedNow(r) == {r.settled[j] : j \in 1..Len(r.settled)} \ r.rejected

\* C17: every change of a unit's isOn happens in the step in which the PUT for a
\* bound unit is answered with code 200, to the value that PUT carried, or in a
\* state write of a virtual unit (setState to the desired value, close to off);
\* no step that suspends a call on a PUT, and no initAsync, setCircuitAsync,
\* initCircuitAsync, validateSetupAsync or poll tick, changes isOn.
C17_IsOnChangesOnlyWhenConfirmed ==
    [][\A id \in Ids :
          isOn'[id] # isOn[id]
          => \/ /\ Bound(id)
                /\ last'.op \in {"setState", "close", "closeAll"}
                /\ last'.id = id
                /\ last'.dev = Response(OkCode)
                /\ isOn'[id] = last'.val
             \/ /\ Virtual(id)
                /\ last'.op = "setState"
                /\ last'.id = id
                /\ last'.dev = NoResult
                /\ isOn'[id] = last'.val
             \/ /\ Virtual(id)
                /\ last'.op \in {"close", "closeAll"}
                /\ id \in ClosedNow(last')
                /\ isOn'[id] = FALSE]_vars

\* A PUT answered 200 has switched a bound unit on, while the PUT that is to
\* switch another bound unit on is unanswered and that unit is still off.
C17_Witness ==
    /\ last.op = "setState"
    /\ last.id \in Ids
    /\ Bound(last.id)
    /\ last.dev = Response(OkCode)
    /\ last.val = TRUE
    /\ isOn[last.id] = TRUE
    /\ \E k \in 1..Len(calls) :
          /\ calls[k].op = "set"
          /\ calls[k].id # last.id
          /\ calls[k].val = TRUE
          /\ isOn[calls[k].id] = FALSE

\* C18: whichever of the suspended setState calls a response belongs to, the first
\* issued or a later one, a code-200 response commits the desired value of that
\* call and any other response leaves isOn as the earlier responses left it; the
\* other suspended calls stay as they are.  So the isOn left once overlapping
\* calls have all completed is that of the last code-200 response to land.
C18_LastResponseWins ==
    [][\A k \in 1..Len(calls) :
          (/\ calls[k].op = "set"
           /\ last'.op = "setState"
           /\ last'.pos = k)
          => (/\ isOn' = IF last'.dev = Response(OkCode)
                         THEN [isOn EXCEPT ![calls[k].id] = calls[k].val]
                         ELSE isOn
              /\ calls' = RemoveAt(calls, k))]_vars

\* Two setState calls of one bound unit overlap: the response of the call issued
\* second has landed first, with code 200, and its value is committed; the call
\* issued first, for the other value, is still to land.
C18_Witness ==
    /\ last.op = "setState"
    /\ last.pos = 2
    /\ last.dev = Response(OkCode)
    /\ isOn[last.id] = last.val
    /\ Len(calls) = 1
    /\ calls[1].op = "set"
    /\ calls[1].id = last.id
    /\ calls[1].val # last.val

\* C19: commStatus changes only in validateSetupAsync, and only for the unit it
\* was called on; validateSetupAsync changes no isOn; setState changes no isOn but
\* that of its unit; a step of closeAsync changes no isOn but those of the units
\* whose close settled in it.
C19_StateAndCommStatusOrthogonal ==
    [][/\ commStatus' # commStatus => last'.op = "validateSetup"
       /\ last'.op = "validateSetup"
          => (/\ isOn' = isOn
              /\ \A id \in Ids : id # last'.id => commStatus'[id] = commStatus[id])
       /\ last'.op = "setState"
          => \A id \in Ids : id # last'.id => isOn'[id] = isOn[id]
       /\ last'.op \in {"close", "closeAll"}
          => \A id \in Ids :
                isOn'[id] # isOn[id] => \E j \in 1..Len(last'.settled) : last'.settled[j] = id
      ]_vars

\* A status check has marked a bound unit faulted and the unit stays on; the other
\* unit is on and stays OK.
C19_Witness ==
    /\ last.op = "validateSetup"
    /\ last.id \in Ids
    /\ Bound(last.id)
    /\ commStatus[last.id] = 1
    /\ isOn[last.id] = TRUE
    /\ \E id \in Ids : id # last.id /\ commStatus[id] = 0 /\ isOn[id] = TRUE

\* C20: a step of closeAsync removes from the collection only units whose close
\* it has awaited and seen resolve, and leaves in the collection no such unit.
C20_CloseRemovesOnlyClosedUnits ==
    [][last'.op \in {"close", "closeAll"}
       => (/\ \A j \in 1..Len(coll) :
                 (\A n \in 1..Len(coll') : coll'[n] # coll[j]) => coll[j] \in ClosedNow(last')
           /\ \A n \in 1..Len(coll') : coll'[n] \notin ClosedNow(last'))]_vars
====
